---- MODULE Spec2Model ----
(***************************************************************************)
(* Model of the Chatterbox TTS API server (src/api/api_server.py,          *)
(* src/api/config.py): the ModelManager registry, the request handlers of  *)
(* the synthesis endpoints and /health, and the asyncio event loop that    *)
(* runs them.                                                              *)
(*                                                                         *)
(* Every handler is an `async def` executed on the single event loop that  *)
(* uvicorn.run starts (api_server.py:412-414).  A handler keeps the loop   *)
(* from the moment it is dispatched until it returns, raises, or reaches   *)
(* an `await`; the only `await` in the handlers is `await                  *)
(* voice_file.read()` (api_server.py:375).  `running` is the task that     *)
(* holds the loop.                                                         *)
(*                                                                         *)
(* A request field is drawn where the code first reads it (the client's    *)
(* choice is fixed but unobserved until then): model_type at dispatch      *)
(* (schema / form parsing), text where its length or value is first used,  *)
(* language_id at the synthesis call.                                      *)
(***************************************************************************)
EXTENDS Integers, Sequences, FiniteSets, TLC

(* ---------------------------- bounds ----------------------------------- *)
\* number of requests that can be in flight at the same time
MaxInFlight == 2
\* number of distinct names the temporary directory can hand out
MaxPaths == 2
\* cap on the number of instances ever constructed for one variant
MaxConstructions == 2
\* number of comma-separated fields of a CHATTERBOX_PRELOAD_MODELS value
MaxPreloadFields == 2
\* number of samples in the dataset stream
MaxStream == 3
\* largest --max-samples value
MaxLimit == 2

(* ------------------------ program constants ---------------------------- *)
\* Settings.max_text_length
max_text_length == 5000

Variants == {"turbo", "multilingual", "original"}

\* values for "no value": Python None for strings, paths, instances
None == "None"
NoPath == 0
NoTask == 0
Unread == -1
NoModel == [variant |-> None, device |-> None, serial |-> 0]
NoGen == [called |-> FALSE, text_len |-> Unread, language_id |-> None,
          audio_prompt_path |-> NoPath]
NoExc == [type |-> None, status_code |-> 0, detail |-> None]

Slots == 1..MaxInFlight
Paths == 1..MaxPaths

\* inputs the environment and the clients can supply
DevicePrefs == {None, "", "cuda", "mps", "cpu", "tpu"}
TextLens == {max_text_length, max_text_length + 1}
JsonModelTypes == Variants \cup {None, "invalid_model"}
FormModelTypes == Variants \cup {None, "invalid_model"}
JsonLanguageIds == {None, "", "fr"}
FormLanguageIds == {None, "fr"}
Endpoints == {"health", "tts", "tts_turbo", "tts_multilingual",
              "tts_original", "tts_with_voice"}
SynthesisEndpoints == Endpoints \ {"health"}

VARIABLES
  phase,            \* "import" while the module is being loaded, then "serving"
  settings_device,  \* settings.device
  cuda_available,   \* torch.cuda.is_available()
  mps_available,    \* torch.backends.mps.is_available()
  preload_models,   \* settings.preload_models
  model_manager,    \* the global ModelManager
  constructed,      \* per variant: number of instances from_pretrained returned
  first_failed,     \* the variant whose from_pretrained raised first, None if none has
  files,            \* names that exist in the temporary directory
  req,              \* per slot: the request task occupying it
  running,          \* the task holding the event loop, or NoTask
  dl                \* the download_korean_voices run (dataset_tools)

vars == <<phase, settings_device, cuda_available, mps_available,
          preload_models, model_manager, constructed, first_failed, files, req, running, dl>>

\* Python truthiness of an Optional[str]
Truthy(s) == s \notin {None, ""}

(* ------------------------- ModelManager -------------------------------- *)
\* a selection that probes the accelerators before the configured device
_get_device_probe_first(pref, cuda, mps) ==
  IF cuda THEN "cuda"
  ELSE IF mps THEN "mps"
  ELSE IF Truthy(pref) THEN pref
  ELSE "cpu"

\* ModelManager._get_device
_get_device(pref, cuda, mps) ==
  IF Truthy(pref) THEN pref
  ELSE IF cuda THEN "cuda"
  ELSE IF mps THEN "mps"
  ELSE "cpu"

\* ModelManager.__init__
ModelManager(pref, cuda, mps) ==
  [turbo_model |-> NoModel,
   multilingual_model |-> NoModel,
   original_model |-> NoModel,
   device |-> _get_device(pref, cuda, mps)]

NotConstructed ==
  [turbo_model |-> NoModel, multilingual_model |-> NoModel,
   original_model |-> NoModel, device |-> None]

\* the registry slot of a variant
SlotOf(mm, v) ==
  CASE v = "turbo" -> mm.turbo_model
    [] v = "multilingual" -> mm.multilingual_model
    [] v = "original" -> mm.original_model

SetSlot(mm, v, m) ==
  CASE v = "turbo" -> [mm EXCEPT !.turbo_model = m]
    [] v = "multilingual" -> [mm EXCEPT !.multilingual_model = m]
    [] v = "original" -> [mm EXCEPT !.original_model = m]

\* a cache test that never finds the instance
is_None_always(mm, v) == TRUE

\* `if self.<variant>_model is None` in load_turbo / load_multilingual /
\* load_original
is_None(mm, v) == SlotOf(mm, v) = NoModel

\* a request task that has not been accepted yet (cold records, for the
\* request's whole life, whether it was accepted while no variant was loaded)
IdleReq ==
  [pc |-> "idle", endpoint |-> None, model_type |-> None, text_len |-> Unread,
   language_id |-> None, variant |-> None, model |-> NoModel,
   tmp_file |-> NoPath, tmp_path |-> NoPath, gen |-> NoGen, exc |-> NoExc,
   status |-> 0, detail |-> None, loaded_models |-> <<>>,
   cold |-> FALSE]

(* ----------------------------- Settings -------------------------------- *)
\* A value of CHATTERBOX_PRELOAD_MODELS is represented by the sequence of
\* its comma-separated fields (what v.split(",") returns), so the empty
\* string is <<"">>; NotSet is the variable not being set (v is None).
NotSet == <<>>
PreloadFields == {"turbo", " multilingual ", "", " "}

RECURSIVE SeqsUpTo(_, _)
SeqsUpTo(S, n) ==
  IF n = 0 THEN {<<>>}
  ELSE LET shorter == SeqsUpTo(S, n - 1) IN
       shorter \cup {Append(q, x) : q \in shorter, x \in S}

PreloadValues == SeqsUpTo(PreloadFields, MaxPreloadFields)

\* str.strip on a field
strip(field) ==
  CASE field = " multilingual " -> "multilingual"
    [] field = " " -> ""
    [] OTHER -> field

NonBlank(m) == m # ""

\* Settings.parse_preload_models
parse_preload_models(v) ==
  IF v = NotSet \/ v = <<"">> THEN <<>>
  ELSE SelectSeq([i \in 1..Len(v) |-> strip(v[i])], NonBlank)

(* ------------------ dataset_tools: download_korean_voices -------------- *)
\* the samples a stream can yield: the fields the filter loop reads
Languages == {"Korean", "Japanese"}
Speakers == {"Paimon", "Hu Tao"}
Samples == [language : Languages, speaker : Speakers]
NoSample == [language |-> None, speaker |-> None]

\* max_samples = None
NoLimit == 0
MaxSamplesValues == {NoLimit} \cup (1..MaxLimit)

\* the script is not running
NotStarted ==
  [pc |-> "off", max_samples |-> NoLimit, stream |-> <<>>, sample |-> NoSample,
   korean_count |-> 0, total_processed |-> 0, audio_files |-> {}, rows |-> 0]

(* ----------------------------- Init ------------------------------------ *)
\* the server process after `model_manager = ModelManager()` on a host
\* without accelerators and without a configured device
Init ==
  /\ phase = "serving"
  /\ settings_device = None
  /\ cuda_available = FALSE
  /\ mps_available = FALSE
  /\ preload_models = parse_preload_models(NotSet)
  /\ model_manager = ModelManager(settings_device, cuda_available, mps_available)
  /\ constructed = [v \in Variants |-> 0]
  /\ first_failed = None
  /\ files = {}
  /\ req = [r \in Slots |-> IdleReq]
  /\ running = NoTask
  /\ dl = NotStarted

\* the process at import time, before the ModelManager is constructed, on
\* any host and with any configured device
InitDevice ==
  /\ phase = "import"
  /\ settings_device \in DevicePrefs
  /\ cuda_available \in BOOLEAN
  /\ mps_available \in BOOLEAN
  /\ \E v \in PreloadValues : preload_models = parse_preload_models(v)
  /\ model_manager = NotConstructed
  /\ constructed = [v \in Variants |-> 0]
  /\ first_failed = None
  /\ files = {}
  /\ req = [r \in Slots |-> IdleReq]
  /\ running = NoTask
  /\ dl = NotStarted

\* model_manager = ModelManager()
ModelManagerInit ==
  /\ phase = "import"
  /\ model_manager' = ModelManager(settings_device, cuda_available, mps_available)
  /\ phase' = "serving"
  /\ UNCHANGED <<settings_device, cuda_available, mps_available,
                 preload_models, constructed, first_failed, files, req, running,
                 dl>>


(* --------------------------- event loop -------------------------------- *)
env == <<phase, settings_device, cuda_available, mps_available, preload_models,
        dl>>
registry == <<model_manager, constructed, first_failed>>

\* await points of handlers that also await the construction of a model
AwaitPointsWithLoad == {"await_read", "from_pretrained"}

\* the program points at which a handler is suspended on an `await`
\* (api_server.py:375 is the only one)
AwaitPoints == {"await_read"}

\* task r may execute its next step: it holds the loop, or it is suspended
\* at an await and the loop is free
CanStep(r) ==
  \/ running = r
  \/ running = NoTask /\ req[r].pc \in AwaitPoints

\* task r has stepped to the request state rec
Step(r, rec) ==
  /\ req' = [req EXCEPT ![r] = rec]
  /\ running' = IF rec.pc \in AwaitPoints THEN NoTask ELSE r

HTTPException(code, msg) ==
  [type |-> "HTTPException", status_code |-> code, detail |-> msg]

Exception(msg) == [type |-> "Exception", status_code |-> 0, detail |-> msg]

\* a connection is accepted and a task is created for its request
Accept(r) ==
  /\ phase = "serving"
  /\ req[r].pc = "idle"
  /\ req' = [req EXCEPT ![r].pc = "accepted",
                         ![r].cold = \A v \in Variants :
                                       is_None(model_manager, v)]
  /\ UNCHANGED <<env, registry, files, running>>

\* value of a form or JSON field that was not sent
Default(value, default) == IF value = None THEN default ELSE value

\* TTSRequest.model_type: Literal["turbo", "multilingual", "original"]
TTSRequestValid(model_type) == model_type \in {"turbo", "multilingual", "original"}

\* the request of task r turns out to be for endpoint e
Routed(r, e) == [req[r] EXCEPT !.endpoint = e]

\* the loop picks the task up: routing and parameter validation, then the
\* handler body starts
Dispatch(r, e) ==
  /\ phase = "serving"
  /\ req[r].pc = "accepted"
  /\ running = NoTask
  /\ CASE e = "health" ->
            Step(r, [Routed(r, e) EXCEPT !.pc = "health_check"])
       [] e = "tts" ->
            \E mt \in JsonModelTypes :
              LET model_type == Default(mt, "turbo") IN
              IF TTSRequestValid(model_type)
              THEN Step(r, [Routed(r, e) EXCEPT
                              !.pc = "validate", !.model_type = model_type])
              ELSE Step(r, [Routed(r, e) EXCEPT
                              !.pc = "responded", !.model_type = model_type,
                              !.status = 422, !.detail = "literal_error"])
       [] e = "tts_turbo" ->
            Step(r, [Routed(r, e) EXCEPT !.pc = "load",
                                               !.variant = "turbo"])
       [] e = "tts_multilingual" ->
            Step(r, [Routed(r, e) EXCEPT !.pc = "load",
                                               !.variant = "multilingual"])
       [] e = "tts_original" ->
            Step(r, [Routed(r, e) EXCEPT !.pc = "load",
                                               !.variant = "original"])
       [] e = "tts_with_voice" ->
            \E mt \in FormModelTypes :
              LET model_type == Default(mt, "turbo") IN
              Step(r, [Routed(r, e) EXCEPT
                         !.pc = "select", !.model_type = model_type])
  /\ UNCHANGED <<env, registry, files>>

\* a health check that tests the turbo slot for the multilingual entry
health_loaded_wrong_slot(mm) ==
  (IF mm.turbo_model # NoModel THEN <<"turbo">> ELSE <<>>)
  \o (IF mm.turbo_model # NoModel THEN <<"multilingual">> ELSE <<>>)
  \o (IF mm.original_model # NoModel THEN <<"original">> ELSE <<>>)

\* health_check: the loaded list
health_loaded(mm) ==
  (IF mm.turbo_model # NoModel THEN <<"turbo">> ELSE <<>>)
  \o (IF mm.multilingual_model # NoModel THEN <<"multilingual">> ELSE <<>>)
  \o (IF mm.original_model # NoModel THEN <<"original">> ELSE <<>>)

health_check(r) ==
  /\ req[r].pc = "health_check"
  /\ CanStep(r)
  /\ Step(r, [req[r] EXCEPT !.pc = "responded", !.status = 200,
                            !.detail = model_manager.device,
                            !.loaded_models = health_loaded(model_manager)])
  /\ UNCHANGED <<env, registry, files>>

\* generate_tts: "Validate text length"
TextTooLong(n) == n > max_text_length

validate(r) ==
  /\ req[r].pc = "validate"
  /\ CanStep(r)
  /\ \E n \in TextLens :
       IF TextTooLong(n)
       THEN Step(r, [req[r] EXCEPT !.pc = "except", !.text_len = n,
                                   !.exc = HTTPException(400, "Text too long")])
       ELSE Step(r, [req[r] EXCEPT !.pc = "select", !.text_len = n])
  /\ UNCHANGED <<env, registry, files>>

\* a with-voice handler that saves the upload before it loads the model
AfterSelect_stage_first(e) == IF e = "tts_with_voice" THEN "stage" ELSE "load"

\* where a handler continues once the model_type has been recognised: the
\* load_<variant>() call of the matching branch
AfterSelect(e) == "load"

\* generate_tts, generate_tts_with_voice: "Load appropriate model"
select(r) ==
  /\ req[r].pc = "select"
  /\ CanStep(r)
  /\ IF req[r].model_type \in {"turbo", "multilingual", "original"}
     THEN Step(r, [req[r] EXCEPT !.pc = AfterSelect(req[r].endpoint),
                                 !.variant = req[r].model_type])
     ELSE Step(r, [req[r] EXCEPT !.pc = "except",
                                 !.exc = HTTPException(400, "Invalid model_type")])
  /\ UNCHANGED <<env, registry, files>>


\* where a handler continues once load_<variant>() has returned
AfterLoad(e) == IF e = "tts_with_voice" THEN "stage" ELSE "generate"

\* a handler that calls model.generate again when it raises
OnRaise_retry(e, pc) ==
  IF pc = "generate" THEN "generate"
  ELSE IF e = "tts_with_voice" /\ pc = "save" THEN "finally"
  ELSE "except"

\* where a handler continues when a statement raises
OnRaise(e, pc) ==
  IF e = "tts_with_voice" /\ pc \in {"generate", "save"} THEN "finally"
  ELSE "except"

\* ModelManager.load_turbo / load_multilingual / load_original: the cache test
load(r) ==
  /\ req[r].pc = "load"
  /\ CanStep(r)
  /\ IF is_None(model_manager, req[r].variant)
     THEN Step(r, [req[r] EXCEPT !.pc = "from_pretrained"])
     ELSE Step(r, [req[r] EXCEPT !.pc = AfterLoad(req[r].endpoint),
                                 !.model = SlotOf(model_manager, req[r].variant)])
  /\ UNCHANGED <<env, registry, files>>

\* a registry that caches a partial instance when from_pretrained raises
AfterFailedLoad_cached(mm, v) ==
  SetSlot(mm, v, [variant |-> v, device |-> mm.device, serial |-> 0])

\* the registry after <Provider>.from_pretrained raised: the assignment of
\* api_server.py:92 / 100 / 108 did not take place
AfterFailedLoad(mm, v) == mm

\* self.<variant>_model = <Provider>.from_pretrained(device=self.device)
from_pretrained(r) ==
  /\ req[r].pc = "from_pretrained"
  /\ CanStep(r)
  /\ LET v == req[r].variant IN
     \/ /\ constructed[v] < MaxConstructions
        /\ LET m == [variant |-> v, device |-> model_manager.device,
                     serial |-> constructed[v] + 1] IN
           /\ constructed' = [constructed EXCEPT ![v] = @ + 1]
           /\ model_manager' = SetSlot(model_manager, v, m)
           /\ Step(r, [req[r] EXCEPT !.pc = AfterLoad(req[r].endpoint),
                                     !.model = m])
           /\ UNCHANGED first_failed
     \/ /\ model_manager' = AfterFailedLoad(model_manager, v)
        /\ Step(r, [req[r] EXCEPT !.pc = "except",
                                  !.exc = Exception("from_pretrained failed")])
        /\ first_failed' = IF first_failed = None THEN v ELSE first_failed
        /\ UNCHANGED constructed
  /\ UNCHANGED <<env, files>>

\* a staging that always uses the same file name
FreshNames_fixed(existing) == {1}

\* the names NamedTemporaryFile can give a new file: any name that does not
\* exist in the directory
FreshNames(existing) == Paths \ existing

\* with tempfile.NamedTemporaryFile(delete=False, suffix=".wav") as tmp_file:
\* the file is created under a name that does not exist yet, then the task
\* awaits the upload
stage(r) ==
  /\ req[r].pc = "stage"
  /\ CanStep(r)
  /\ \/ \E p \in FreshNames(files) :
          /\ files' = files \cup {p}
          /\ Step(r, [req[r] EXCEPT !.pc = "await_read", !.tmp_file = p])
     \/ /\ Step(r, [req[r] EXCEPT !.pc = "except",
                                  !.exc = Exception("NamedTemporaryFile failed")])
        /\ UNCHANGED files
  /\ UNCHANGED <<env, registry>>

\* content = await voice_file.read(): the task resumes with the content, or
\* with an exception that leaves the with block (the file is closed, and
\* delete=False keeps it)
await_read(r) ==
  /\ req[r].pc = "await_read"
  /\ CanStep(r)
  /\ \/ Step(r, [req[r] EXCEPT !.pc = "write"])
     \/ Step(r, [req[r] EXCEPT !.pc = "except",
                               !.exc = Exception("read failed")])
  /\ UNCHANGED <<env, registry, files>>

\* tmp_file.write(content); tmp_path = tmp_file.name
write(r) ==
  /\ req[r].pc = "write"
  /\ CanStep(r)
  /\ \/ Step(r, [req[r] EXCEPT !.pc = "generate", !.tmp_path = req[r].tmp_file])
     \/ Step(r, [req[r] EXCEPT !.pc = "except",
                               !.exc = Exception("write failed")])
  /\ UNCHANGED <<env, registry, files>>

\* a call that passes any supplied language_id, whatever the model_type
generate_language_id_any_model(e, model_type, language_id) ==
  CASE e \in {"tts", "tts_with_voice"} ->
         IF Truthy(language_id) THEN language_id ELSE None
    [] e = "tts_multilingual" -> language_id
    [] OTHER -> None

\* the language_id keyword of the model.generate call, None when the call
\* has no such keyword
generate_language_id(e, model_type, language_id) ==
  CASE e \in {"tts", "tts_with_voice"} ->
         IF model_type = "multilingual" /\ Truthy(language_id)
         THEN language_id ELSE None
    [] e = "tts_multilingual" -> language_id
    [] OTHER -> None

\* the language_id values a request to endpoint e can carry, as the
\* handler sees them
LanguageIdsOf(e) ==
  CASE e = "tts" -> JsonLanguageIds
    [] e = "tts_multilingual" -> {Default(l, "en") : l \in FormLanguageIds}
    [] e = "tts_with_voice" -> FormLanguageIds
    [] OTHER -> {None}

\* wav = model.generate(text, ...)
generate(r) ==
  /\ req[r].pc = "generate"
  /\ CanStep(r)
  /\ \E n \in (IF req[r].text_len = Unread THEN TextLens ELSE {req[r].text_len}),
        l \in LanguageIdsOf(req[r].endpoint) :
       LET q == [req[r] EXCEPT !.text_len = n, !.language_id = l] IN
       \/ Step(r, [q EXCEPT !.pc = "save",
                            !.gen = [called |-> TRUE, text_len |-> n,
                                     language_id |->
                                       generate_language_id(q.endpoint,
                                                            q.model_type, l),
                                     audio_prompt_path |-> q.tmp_path]])
       \/ Step(r, [q EXCEPT !.pc = OnRaise(q.endpoint, "generate"),
                            !.exc = Exception("generate failed")])
  /\ UNCHANGED <<env, registry, files>>

\* ta.save(buffer, wav, model.sr, format="wav"); return StreamingResponse(...)
save(r) ==
  /\ req[r].pc = "save"
  /\ CanStep(r)
  /\ \/ IF req[r].endpoint = "tts_with_voice"
        THEN Step(r, [req[r] EXCEPT !.pc = "finally", !.status = 200])
        ELSE Step(r, [req[r] EXCEPT !.pc = "responded", !.status = 200])
     \/ Step(r, [req[r] EXCEPT !.pc = OnRaise(req[r].endpoint, "save"),
                               !.exc = Exception("save failed")])
  /\ UNCHANGED <<env, registry, files>>

\* finally: if os.path.exists(tmp_path): os.unlink(tmp_path)
finally(r) ==
  /\ req[r].pc = "finally"
  /\ CanStep(r)
  /\ files' = files \ {req[r].tmp_path}
  /\ IF req[r].exc = NoExc
     THEN Step(r, [req[r] EXCEPT !.pc = "responded"])
     ELSE Step(r, [req[r] EXCEPT !.pc = "except"])
  /\ UNCHANGED <<env, registry>>

\* except Exception as e: raise HTTPException(status_code=500, detail=str(e))
except(r) ==
  /\ req[r].pc = "except"
  /\ CanStep(r)
  /\ Step(r, [req[r] EXCEPT !.pc = "responded", !.status = 500,
                            !.detail = req[r].exc.detail])
  /\ UNCHANGED <<env, registry, files>>

\* the response has been sent and the task ends
Finish(r) ==
  /\ req[r].pc = "responded"
  /\ running = r
  /\ req' = [req EXCEPT ![r] = IdleReq]
  /\ running' = NoTask
  /\ UNCHANGED <<env, registry, files>>

Next ==
  \E r \in Slots :
    \/ Accept(r)
    \/ \E e \in Endpoints : Dispatch(r, e)
    \/ health_check(r)
    \/ validate(r)
    \/ select(r)
    \/ load(r)
    \/ from_pretrained(r)
    \/ stage(r)
    \/ await_read(r)
    \/ write(r)
    \/ generate(r)
    \/ save(r)
    \/ finally(r)
    \/ except(r)
    \/ Finish(r)

Spec == Init /\ [][Next]_vars

\* the server from import time on, answering /health
NextDevice ==
  \/ ModelManagerInit
  \/ \E r \in Slots :
       \/ Accept(r)
       \/ Dispatch(r, "health")
       \/ health_check(r)
       \/ Finish(r)

SpecDevice == InitDevice /\ [][NextDevice]_vars

TypeOK ==
  /\ phase \in {"import", "serving"}
  /\ files \subseteq Paths
  /\ running \in Slots \cup {NoTask}
  /\ \A v \in Variants : constructed[v] \in 0..MaxConstructions


(* ======================= properties of the claims ====================== *)

\* the requests that hold a model instance
Holding(r) == req[r].model # NoModel

\* task r leaves the cache test of load_<variant> in this step
LeavesLoad(r) == req[r].pc = "load" /\ req'[r].pc # "load"

\* C1: once a load of variant v has succeeded, every later get-or-load of v
\* returns the identical instance handle and constructs nothing: the slot of
\* v never changes again, no instance is constructed for v again, no request
\* reaches from_pretrained for v, and a request leaving load_<v> holds the
\* handle in the slot.
C1_LoadIdempotent ==
  [][\A v \in Variants :
       constructed[v] >= 1 =>
         /\ SlotOf(model_manager, v) # NoModel
         /\ SlotOf(model_manager', v) = SlotOf(model_manager, v)
         /\ constructed'[v] = constructed[v]
         /\ \A r \in Slots :
              (req[r].variant = v /\ LeavesLoad(r)) =>
                 /\ req'[r].pc = AfterLoad(req[r].endpoint)
                 /\ req'[r].model = SlotOf(model_manager, v)]_vars

\* C1 witness: a request accepted after a variant was loaded has obtained
\* that variant's instance from the cache.
C1_Witness ==
  \E r \in Slots :
    /\ Holding(r)
    /\ ~req[r].cold
    /\ req[r].model = SlotOf(model_manager, req[r].variant)
    /\ req[r].model.serial = 1
    /\ req[r].pc = "responded"
    /\ req[r].status = 200

\* C2: whatever the interleaving of the requests, at most one instance of a
\* variant is ever constructed, and every request that has obtained the
\* model of variant v holds the one instance constructed for v: exactly one
\* construction has occurred.
C2_SingleConstruction ==
  /\ \A v \in Variants : constructed[v] <= 1
  /\ \A r \in Slots :
       Holding(r) =>
         /\ constructed[req[r].variant] = 1
         /\ req[r].model = SlotOf(model_manager, req[r].variant)

\* C2 witness: two requests for the same variant, both accepted before any
\* variant was loaded and in flight together, hold the same single instance.
C2_Witness ==
  \E r1, r2 \in Slots :
    /\ r1 # r2
    /\ req[r1].cold /\ req[r2].cold
    /\ req[r1].variant = req[r2].variant
    /\ Holding(r1) /\ Holding(r2)
    /\ req[r1].model = req[r2].model
    /\ constructed[req[r1].variant] = 1
    /\ req[r1].pc = "await_read"
    /\ req[r2].pc = "responded" /\ req[r2].status = 200


\* the request of task r has been answered
Responded(r) == req[r].pc = "responded"

\* C3: a synthesis request whose text is longer than max_text_length, on any
\* synthesis endpoint, obtains no model, reaches no from_pretrained and no
\* model.generate call, and is answered with the text-too-long error.
C3_TooLongRejected ==
  \A r \in Slots :
    (req[r].endpoint \in SynthesisEndpoints /\ req[r].text_len > max_text_length) =>
       /\ ~Holding(r)
       /\ ~req[r].gen.called
       /\ req[r].pc \notin {"load", "from_pretrained", "generate", "save"}
       /\ Responded(r) => req[r].exc.detail = "Text too long"

\* C4: a text-too-long failure raised by a handler is answered with status
\* 400 and the message of the length limit, never with a 5xx status.
C4_TooLongIs400 ==
  \A r \in Slots :
    (Responded(r) /\ req[r].exc = HTTPException(400, "Text too long")) =>
       /\ req[r].status = 400
       /\ req[r].detail = "Text too long"

\* C5: a request whose model_type is not a known variant is answered 422 at
\* /tts without the handler body having run, and 400 (invalid model_type,
\* raised in the handler) at /tts/with-voice; in both cases it obtains no
\* model and calls neither from_pretrained nor model.generate.
C5_UnknownVariantRejected ==
  \A r \in Slots :
    (req[r].endpoint \in {"tts", "tts_with_voice"}
       /\ req[r].model_type \notin Variants) =>
       /\ ~Holding(r)
       /\ ~req[r].gen.called
       /\ req[r].variant = None
       /\ req[r].pc \notin {"load", "from_pretrained", "generate", "save"}
       /\ (Responded(r) /\ req[r].endpoint = "tts") =>
             /\ req[r].status = 422
             /\ req[r].exc = NoExc
             /\ req[r].text_len = Unread
       /\ (Responded(r) /\ req[r].endpoint = "tts_with_voice") =>
             /\ req[r].status = 400
             /\ req[r].exc = HTTPException(400, "Invalid model_type")

\* C6: once a /tts/with-voice request that created a temporary file has been
\* answered, that file does not exist, whichever way the handler was left.
C6_TmpFileRemoved ==
  \A r \in Slots :
    (Responded(r) /\ req[r].tmp_file # NoPath) => req[r].tmp_file \notin files


Range(f) == {f[i] : i \in DOMAIN f}

\* the variants whose construction has completed successfully
Succeeded == {v \in Variants : constructed[v] >= 1}

LoadFailure == Exception("from_pretrained failed")

\* C7: when the construction of variant v fails, the registry is left as it
\* was (the slot of v empty, the other slots unchanged), the requesting call
\* holds no instance and is answered with the failure (status 500), v is not
\* reported as loaded, and a later get-or-load of v, finding the slot empty,
\* attempts the construction again.
C7_FailedLoadLeavesSlotEmpty ==
  /\ [](\A r \in Slots :
          req[r].exc = LoadFailure =>
            /\ is_None(model_manager, req[r].variant)
            /\ req[r].variant \notin Range(health_loaded(model_manager))
            /\ ~Holding(r)
            /\ req[r].pc \in {"except", "responded"}
            /\ Responded(r) => (req[r].status = 500
                                /\ req[r].detail = "from_pretrained failed"))
  /\ [][\A r \in Slots :
          /\ (req[r].pc = "from_pretrained" /\ req'[r].exc = LoadFailure) =>
                model_manager' = model_manager
          /\ (LeavesLoad(r) /\ req[r].variant = first_failed
                /\ is_None(model_manager, first_failed)) =>
                req'[r].pc = "from_pretrained"]_vars

\* C7 witness: a variant whose construction failed earlier has been
\* constructed by a later request, which was answered 200.
C7_Witness ==
  \E r \in Slots :
    /\ first_failed # None
    /\ req[r].variant = first_failed
    /\ Responded(r) /\ req[r].status = 200
    /\ req[r].model = SlotOf(model_manager, first_failed)
    /\ constructed[first_failed] = 1

\* C8: /health reports exactly the variants whose construction has completed
\* successfully, each once, in every state and in every answer it gives; it
\* leaves the registry unchanged; and when a synthesis request for v has been
\* answered 200, v is in the reported set.
C8_HealthReportsLoaded ==
  /\ [](/\ Range(health_loaded(model_manager)) = Succeeded
        /\ Len(health_loaded(model_manager)) = Cardinality(Succeeded)
        /\ \A r \in Slots :
             /\ (Responded(r) /\ req[r].endpoint = "health") =>
                   /\ req[r].status = 200
                   /\ Range(req[r].loaded_models) = Succeeded
             /\ (Responded(r) /\ req[r].endpoint \in SynthesisEndpoints
                   /\ req[r].status = 200) =>
                   req[r].variant \in Range(health_loaded(model_manager)))
  /\ [][\A r \in Slots :
          req[r].pc = "health_check" =>
             /\ model_manager' = model_manager
             /\ constructed' = constructed]_vars

\* C8 witness: /health has answered with a non-empty list that leaves out a
\* variant whose construction failed.
C8_Witness ==
  \E r \in Slots :
    /\ Responded(r) /\ req[r].endpoint = "health"
    /\ req[r].loaded_models # <<>>
    /\ first_failed # None
    /\ first_failed \notin Range(req[r].loaded_models)

\* C9: the device of the ModelManager is the configured preference whenever
\* one is configured (a non-empty settings.device), whatever accelerators
\* are available; otherwise it is cuda if cuda is available, else mps if mps
\* is available, else cpu; a device is always selected, and /health reports
\* it.
C9_DeviceSelection ==
  phase = "serving" =>
    LET dev == model_manager.device IN
    /\ dev # None
    /\ Truthy(settings_device) => dev = settings_device
    /\ ~Truthy(settings_device) =>
         /\ cuda_available => dev = "cuda"
         /\ (~cuda_available /\ mps_available) => dev = "mps"
         /\ (~cuda_available /\ ~mps_available) => dev = "cpu"
    /\ \A r \in Slots :
         (Responded(r) /\ req[r].endpoint = "health") => req[r].detail = dev

\* C9 witness: with the preference "cpu" configured on a host where cuda is
\* available, the ModelManager has been constructed and /health has answered.
C9_Witness ==
  /\ phase = "serving"
  /\ settings_device = "cpu"
  /\ cuda_available
  /\ model_manager.device = "cpu"
  /\ \E r \in Slots : Responded(r) /\ req[r].endpoint = "health"

\* C10: a model.generate call for the multilingual variant receives exactly
\* the language_id of the request when one is supplied (non-empty); a call
\* for turbo or original never receives a language_id.
C10_LanguageIdPassing ==
  \A r \in Slots :
    req[r].gen.called =>
      /\ (req[r].variant = "multilingual" /\ Truthy(req[r].language_id)) =>
            req[r].gen.language_id = req[r].language_id
      /\ req[r].variant \in {"turbo", "original"} =>
            req[r].gen.language_id = None

\* C10 witness: a /tts request for multilingual with language_id "fr" has
\* called model.generate with language_id "fr".
C10_Witness ==
  \E r \in Slots :
    /\ req[r].gen.called
    /\ req[r].endpoint = "tts"
    /\ req[r].variant = "multilingual"
    /\ req[r].language_id = "fr"
    /\ req[r].gen.language_id = "fr"


\* task r is inside its model-loading step (the from_pretrained call) or its
\* synthesis step (the model.generate call)
InsideLoadOrSynthesis(r) == req[r].pc \in {"from_pretrained", "generate"}

\* C11: while a request is inside its model-loading or synthesis step for
\* variant v, a concurrent request for a different, already-loaded variant w
\* that is waiting to continue (suspended at its await, holding the instance
\* of w) can take its next step.
C11_UnrelatedRequestsProgress ==
  \A r1, r2 \in Slots :
    (/\ r1 # r2
     /\ InsideLoadOrSynthesis(r1)
     /\ req[r2].pc = "await_read"
     /\ req[r2].variant # req[r1].variant
     /\ ~is_None(model_manager, req[r2].variant)) =>
       ENABLED await_read(r2)


\* the position of a program point in the life of a request: Received (1),
\* Validated (2-3), ModelAcquired (4-5), TempResourceStaged (6-8),
\* Synthesized (9), Encoded (10), then cleanup, failure handling and the
\* answer
StageRank(pc) ==
  CASE pc = "idle" -> 0
    [] pc = "accepted" -> 1
    [] pc \in {"validate", "health_check"} -> 2
    [] pc = "select" -> 3
    [] pc = "load" -> 4
    [] pc = "from_pretrained" -> 5
    [] pc = "stage" -> 6
    [] pc = "await_read" -> 7
    [] pc = "write" -> 8
    [] pc = "generate" -> 9
    [] pc = "save" -> 10
    [] pc = "finally" -> 11
    [] pc = "except" -> 12
    [] pc = "responded" -> 13

\* the request of task r ended in Returned / in Failed
Returned(r) == Responded(r) /\ req[r].status = 200 /\ req[r].exc = NoExc
Failed(r) == Responded(r) /\ req[r].status \in {422, 500}

\* C12: every step of a request takes it to a strictly later stage (so no
\* stage is revisited, from_pretrained is reached at most once and
\* model.generate is called at most once) until it has been answered; once a
\* statement has raised, the request only cleans up and answers (no retry);
\* and an answered request is in exactly one of Returned and Failed.
C12_StagesInOrder ==
  /\ [](\A r \in Slots :
          /\ req[r].exc # NoExc => req[r].pc \in {"finally", "except", "responded"}
          /\ req[r].gen.called => StageRank(req[r].pc) > StageRank("generate")
          /\ Holding(r) => StageRank(req[r].pc) > StageRank("from_pretrained")
          /\ Responded(r) => (Returned(r) /\ ~Failed(r)) \/ (Failed(r) /\ ~Returned(r))
          /\ (Returned(r) /\ req[r].endpoint \in SynthesisEndpoints) =>
                (Holding(r) /\ req[r].gen.called)
          /\ (Responded(r) /\ req[r].exc # NoExc) => Failed(r))
  /\ [][\A r \in Slots :
          req'[r] # req[r] =>
            \/ StageRank(req'[r].pc) > StageRank(req[r].pc)
            \/ Responded(r) /\ req'[r] = IdleReq]_vars

\* C12 witness: a /tts/with-voice request that constructed its model itself
\* has gone through every stage and ended in Returned.
C12_Witness ==
  \E r \in Slots :
    /\ Returned(r)
    /\ req[r].endpoint = "tts_with_voice"
    /\ req[r].tmp_path # NoPath
    /\ req[r].gen.called
    /\ Holding(r)
    /\ req[r].cold


\* C13: in /tts/with-voice a temporary file is created only by a request
\* whose model_type has been recognised and that holds its model instance; a
\* request that fails on an unknown model_type or on a failed construction
\* has created no temporary file, and no file appears because of it.
C13_StagedAfterModelAcquired ==
  /\ [](\A r \in Slots :
          /\ req[r].tmp_file # NoPath =>
               /\ req[r].endpoint = "tts_with_voice"
               /\ req[r].variant \in Variants
               /\ Holding(r)
          /\ req[r].exc \in {HTTPException(400, "Invalid model_type"), LoadFailure} =>
               /\ req[r].tmp_file = NoPath
               /\ req[r].tmp_path = NoPath)
  /\ [][\A p \in files' \ files :
          \E r \in Slots :
            /\ req[r].pc = "stage"
            /\ Holding(r)
            /\ req'[r].tmp_file = p]_vars

\* C13 witness: a /tts/with-voice request whose construction failed has
\* been answered 500, has no temporary file, and the directory is empty.
C13_Witness ==
  \E r \in Slots :
    /\ Responded(r)
    /\ req[r].endpoint = "tts_with_voice"
    /\ req[r].exc = LoadFailure
    /\ req[r].status = 500
    /\ req[r].tmp_file = NoPath
    /\ files = {}


\* C14: requests that have a temporary file at the same time have different
\* files; the model.generate call of a /tts/with-voice request is given the
\* path of its own file (and the calls of the other endpoints are given
\* none); and a file is deleted only by the cleanup of the request that
\* created it, never while another request in flight has it as its file.
C14_PrivateTempFiles ==
  /\ [](/\ \A r1, r2 \in Slots :
             (r1 # r2 /\ req[r1].tmp_file # NoPath /\ req[r2].tmp_file # NoPath) =>
                req[r1].tmp_file # req[r2].tmp_file
        /\ \A r \in Slots :
             /\ req[r].tmp_path # NoPath => req[r].tmp_path = req[r].tmp_file
             /\ req[r].gen.called =>
                  req[r].gen.audio_prompt_path =
                    (IF req[r].endpoint = "tts_with_voice"
                     THEN req[r].tmp_file ELSE NoPath)
             /\ (req[r].gen.called /\ req[r].endpoint = "tts_with_voice") =>
                  req[r].tmp_file # NoPath)
  /\ [][\A p \in files \ files' :
          \E r \in Slots :
            /\ req[r].pc = "finally"
            /\ req'[r].pc # "finally"
            /\ req[r].tmp_file = p
            /\ \A r2 \in Slots \ {r} : req[r2].tmp_file # p]_vars

\* C14 witness: while one /tts/with-voice request is suspended with its file
\* in place, another has synthesized from its own, different file, deleted
\* it and been answered 200.
C14_Witness ==
  \E r1, r2 \in Slots :
    /\ r1 # r2
    /\ req[r1].pc = "await_read"
    /\ req[r1].tmp_file \in files
    /\ Returned(r2)
    /\ req[r2].endpoint = "tts_with_voice"
    /\ req[r2].gen.audio_prompt_path = req[r2].tmp_file
    /\ req[r2].tmp_file # req[r1].tmp_file
    /\ req[r2].tmp_file \notin files


\* C15: once the server is serving, every variant named in
\* settings.preload_models (the comma-separated value with blank fields
\* dropped) has a non-empty registry slot and is reported by /health.
C15_PreloadedAtStartup ==
  phase = "serving" =>
    \A i \in DOMAIN preload_models :
      /\ preload_models[i] # ""
      /\ preload_models[i] \in Variants =>
           /\ ~is_None(model_manager, preload_models[i])
           /\ preload_models[i] \in Range(health_loaded(model_manager))


(* ------------- dataset_tools: the filter loop of the script ------------ *)
server == <<phase, settings_device, cuda_available, mps_available,
            preload_models, registry, files, req, running>>

\* download_korean_voices(output_dir, max_samples) has reached its filter
\* loop over some dataset stream, with an empty output directory; the API
\* server is not part of this program
InitDownload ==
  /\ phase = "import"
  /\ settings_device = None
  /\ cuda_available = FALSE
  /\ mps_available = FALSE
  /\ preload_models = parse_preload_models(NotSet)
  /\ model_manager = NotConstructed
  /\ constructed = [v \in Variants |-> 0]
  /\ first_failed = None
  /\ files = {}
  /\ req = [r \in Slots |-> IdleReq]
  /\ running = NoTask
  /\ \E n \in MaxSamplesValues, st \in SeqsUpTo(Samples, MaxStream) :
       dl = [NotStarted EXCEPT !.pc = "next", !.max_samples = n, !.stream = st]

\* "".join(c if c.isalnum() or c in ('-', '_') else '_' for c in speaker)
safe_speaker(speaker) ==
  CASE speaker = "Hu Tao" -> "Hu_Tao"
    [] OTHER -> speaker

\* f"{safe_speaker}_{korean_count:04d}.wav"
filename(speaker, korean_count) ==
  [speaker |-> safe_speaker(speaker), idx |-> korean_count]

\* the directory after sf.write(file_path, ...): a file of that name is
\* replaced
sf_write(dir, name, sample) ==
  {f \in dir : f.name # name} \cup {[name |-> name, language |-> sample.language]}

\* for sample in dataset: total_processed += 1
dl_next ==
  /\ dl.pc = "next"
  /\ IF dl.stream = <<>>
     THEN dl' = [dl EXCEPT !.pc = "done"]
     ELSE dl' = [dl EXCEPT !.pc = "filter", !.sample = Head(dl.stream),
                           !.stream = Tail(dl.stream),
                           !.total_processed = @ + 1]
  /\ UNCHANGED server

\* if sample.get('language') != 'Korean': continue
dl_filter ==
  /\ dl.pc = "filter"
  /\ IF dl.sample.language # "Korean"
     THEN dl' = [dl EXCEPT !.pc = "next"]
     ELSE dl' = [dl EXCEPT !.pc = "write"]
  /\ UNCHANGED server

\* the try block up to sf.write: the file is written under the name built
\* from the speaker and korean_count, or a statement before it raises and
\* the except clause continues with the next sample
dl_write ==
  /\ dl.pc = "write"
  /\ \/ dl' = [dl EXCEPT !.pc = "record",
                         !.audio_files =
                            sf_write(@, filename(dl.sample.speaker,
                                                 dl.korean_count), dl.sample)]
     \/ dl' = [dl EXCEPT !.pc = "next"]
  /\ UNCHANGED server

\* `if max_samples and korean_count >= max_samples: break`
limit_reached(max_samples, korean_count) ==
  max_samples # NoLimit /\ korean_count >= max_samples

\* the rest of the try block: the metadata row is written and korean_count
\* incremented, then the limit is tested; or the row fails (transcription
\* is None, the write raises) and the except clause continues
dl_record ==
  /\ dl.pc = "record"
  /\ \/ dl' = [dl EXCEPT !.rows = @ + 1,
                         !.korean_count = @ + 1,
                         !.pc = IF limit_reached(dl.max_samples, dl.korean_count + 1)
                                THEN "done" ELSE "next"]
     \/ dl' = [dl EXCEPT !.pc = "next"]
  /\ UNCHANGED server

NextDownload == dl_next \/ dl_filter \/ dl_write \/ dl_record

SpecDownload == InitDownload /\ [][NextDownload]_vars

\* C16: with max_samples = n > 0 the output directory never holds more than
\* n audio files and the loop consumes nothing more once n samples have
\* been saved; every audio file comes from a sample whose language is
\* Korean; with max_samples None the loop ends only when the whole stream
\* has been processed.
C16_AtMostMaxSamplesFiles ==
  dl.pc # "off" =>
    /\ dl.max_samples > 0 =>
         /\ Cardinality(dl.audio_files) <= dl.max_samples
         /\ dl.korean_count <= dl.max_samples
         /\ dl.korean_count = dl.max_samples => dl.pc = "done"
    /\ \A f \in dl.audio_files : f.language = "Korean"
    /\ (dl.max_samples = NoLimit /\ dl.pc = "done") => dl.stream = <<>>

====
